---- MODULE Spec2Model ----
(***************************************************************************)
(* Element lifecycle of gpui/src/elements/new.rs: one ElementBox handle    *)
(* that owns a type-erased Lifecycle<T> (Init / PostLayout / PostPaint)    *)
(* wrapping a concrete element T.  The concrete element is the             *)
(* environment: every result it returns and every change it makes through *)
(* a `&mut` it is handed is a nondeterministic choice.                     *)
(***************************************************************************)
EXTENDS Integers, Sequences, FiniteSets, TLC

\* ------------------------------------------------------------------ bounds
\* largest finite coordinate of a size / an origin
MaxCoord == 2
\* LayoutState values range over 0..MaxLayout
MaxLayout == 1
\* the per-frame counters of the history saturate here
MaxCount == 2

\* ------------------------------------------------------------ value domains
\* f32 coordinates: the finite ones, and one value that is not finite
\* (infinity / NaN); it absorbs addition and subtraction.
NonFinite == 2 * MaxCoord + 1
FiniteCoords == 1..MaxCoord
Coords == FiniteCoords \cup {NonFinite}
is_finite(c) == c # NonFinite

\* Vector2F as <<x, y>>; the sizes an element returns
Sizes == {<<x, 1>> : x \in Coords} \cup {<<1, NonFinite>>}
Origins == {<<0, 0>>, <<1, MaxCoord>>}
FAdd(a, b) == IF a = NonFinite \/ b = NonFinite THEN NonFinite ELSE a + b
FSub(a, b) == IF a = NonFinite \/ b = NonFinite THEN NonFinite ELSE a - b

\* RectF::new(origin, size) keeps the origin and the lower-right corner;
\* RectF::size() is their difference.
RectF_new(origin, size) ==
    [origin |-> origin,
     lower_right |-> <<FAdd(origin[1], size[1]), FAdd(origin[2], size[2])>>]
RectF_size(bounds) ==
    <<FSub(bounds.lower_right[1], bounds.origin[1]),
      FSub(bounds.lower_right[2], bounds.origin[2])>>

\* the concrete element's own state, as its `&mut self` methods leave it
Elems == {"plain", "focusable"}
\* T::LayoutState and T::PaintState
LayoutStates == 0..MaxLayout
PaintStates == {"cold", "hot"}
Events == {"click"}

\* Option<X>: None is <<>>, Some(x) is <<x>>
None == <<>>
Some(x) == <<x>>

\* json::Value: a string, or an object whose map is the sequence of its
\* <<key, value>> entries in insertion order, keys unique.
JString(s) == [kind |-> "String", s |-> s]
JObject(m) == [kind |-> "Object", map |-> m]
Names == {"foo"}
DebugValues ==
    { JString("hi"),
      JObject(<<>>),
      JObject(<< <<"type", JString("text")>>, <<"content", JString("hi")>> >>),
      JObject(<< <<"type", JString("text")>>, <<"name", JString("inner")>> >>),
      JObject(<< <<"name", JString("foo")>>, <<"type", JString("text")>> >>) }

Keys(m) == {m[i][1] : i \in 1..Len(m)}
\* Map::insert: a present key keeps its place and takes the new value, a new
\* key goes last.
Map_insert(m, k, v) ==
    IF k \in Keys(m)
    THEN [i \in 1..Len(m) |-> IF m[i][1] = k THEN <<k, v>> ELSE m[i]]
    ELSE Append(m, <<k, v>>)
\* Map::append: every entry of other is inserted, in other's order.
RECURSIVE Map_append(_, _)
Map_append(m, other) ==
    IF other = <<>> THEN m
    ELSE Map_append(Map_insert(m, Head(other)[1], Head(other)[2]), Tail(other))

Constraints == {"loose"}

\* ------------------------------------------------------------------- state
VARIABLES
    handle,            \* the ElementBox: [name, element], element the Lifecycle
    debug_assertions,  \* TRUE in a debug build, FALSE in a release build
    halted,            \* the process has aborted
    last,              \* the most recent call on the handle and how it ended
    order,             \* how far the calls so far follow layout, after_layout,
                       \* paint, (dispatch_event | debug)*
    frame,             \* successful calls since the most recent successful layout
    measured,          \* Option: the size the element's latest layout returned
    placed,            \* Option: the origin of the latest successful paint
    threaded           \* the layout state and paint state as the element's
                       \* methods last produced or left them (Options)

vars == <<handle, debug_assertions, halted, last, order, frame, measured, placed,
          threaded>>

\* --------------------------------------------------------------- Lifecycle
Lifecycle_Init(element) == [tag |-> "Init", element |-> element]
Lifecycle_PostLayout(element, size, layout) ==
    [tag |-> "PostLayout", element |-> element, size |-> size, layout |-> layout]
Lifecycle_PostPaint(element, bounds, layout, paint) ==
    [tag |-> "PostPaint", element |-> element, bounds |-> bounds,
     layout |-> layout, paint |-> paint]
\* the slot while its value is moved out into replace_with_or_abort's closure
Moved == [tag |-> "Moved"]

InvalidState == "invalid element lifecycle state"
AssertX == "assertion failed: size.x().is_finite()"
AssertY == "assertion failed: size.y().is_finite()"
ElementPanicked == "panic in the concrete element"

\* How a call ends: self is the receiver afterwards, ret the Option of the
\* returned value, call the concrete element's method invocation (if any)
\* with the arguments it received.
Ok(self, ret, call) ==
    [self |-> self, outcome |-> "ok", msg |-> "", ret |-> ret, call |-> call]
Panic(self, msg, call) ==
    [self |-> self, outcome |-> "panic", msg |-> msg, ret |-> None, call |-> call]
\* a call on a moved-out slot: the build's behaviour is not defined
Undefined(self) ==
    [self |-> self, outcome |-> "undefined", msg |-> "", ret |-> None, call |-> <<>>]

\* a replace_with that lets the closure's panic unwind past the moved-out slot
replace_with_unwind(r) ==
    IF r.outcome = "panic" THEN [r EXCEPT !.self = Moved] ELSE r

\* replace_with_or_abort(self, closure), given how the closure ended on the
\* moved-out value: its result is stored, and a panic aborts the process with
\* the slot still moved out.
replace_with_or_abort(r) ==
    IF r.outcome = "panic"
    THEN [r EXCEPT !.self = Moved, !.outcome = "abort"]
    ELSE r

\* ---------------------------------------------- the concrete element T
\* What T's methods may do: the element's own state afterwards, the values
\* returned and the values left behind the `&mut` arguments; or r.panicked,
\* and then nothing of it is used.
ElementLayoutResults ==
    [panicked : {FALSE}, element : Elems, size : Sizes, layout : LayoutStates]
      \cup [panicked : {TRUE}, element : {"plain"}, size : {<<1, 1>>}, layout : {0}]
ElementAfterLayoutResults ==
    [panicked : {FALSE}, element : Elems, layout : LayoutStates]
      \cup [panicked : {TRUE}, element : {"plain"}, layout : {0}]
ElementPaintResults ==
    [panicked : {FALSE}, element : Elems, layout : LayoutStates, paint : PaintStates]
      \cup [panicked : {TRUE}, element : {"plain"}, layout : {0}, paint : {"cold"}]
ElementDispatchResults ==
    [panicked : {FALSE}, element : Elems, layout : LayoutStates,
     paint : PaintStates, handled : BOOLEAN]
      \cup [panicked : {TRUE}, element : {"plain"}, layout : {0}, paint : {"cold"},
            handled : {FALSE}]
ElementDebugResults ==
    [panicked : {FALSE}, value : DebugValues]
      \cup [panicked : {TRUE}, value : {JString("")}]
\* Element::metadata(&self): None by default, else something of the element
ElementMetadata(element) == IF element = "plain" THEN None ELSE Some(element)

\* ------------------------------------ impl AnyElement for Lifecycle<T>
\* a layout whose debug build asserts the width only
Lifecycle_layout_asserts_x(self, constraint, r) ==
    replace_with_or_abort(
        LET call == <<[method |-> "layout", constraint |-> constraint]>>
        IN  IF r.panicked THEN Panic(self, ElementPanicked, call)
            ELSE IF debug_assertions /\ ~is_finite(r.size[1])
                 THEN Panic(self, AssertX, call)
            ELSE Ok(Lifecycle_PostLayout(r.element, r.size, r.layout),
                    Some(r.size), call))

\* a layout that, once painted, only refreshes the size inside the bounds
Lifecycle_layout_keeps_paint(self, constraint, r) ==
    IF self.tag = "PostPaint" /\ ~r.panicked
    THEN Ok([self EXCEPT !.element = r.element, !.layout = r.layout,
                         !.bounds = RectF_new(self.bounds.origin, r.size)],
            Some(r.size), <<[method |-> "layout", constraint |-> constraint]>>)
    ELSE replace_with_or_abort(
        LET call == <<[method |-> "layout", constraint |-> constraint]>>
        IN  IF r.panicked THEN Panic(self, ElementPanicked, call)
            ELSE Ok(Lifecycle_PostLayout(r.element, r.size, r.layout),
                    Some(r.size), call))

Lifecycle_layout(self, constraint, r) ==
    IF self.tag = "Moved" THEN Undefined(self)
    ELSE replace_with_or_abort(
        LET call == <<[method |-> "layout", constraint |-> constraint]>>
        IN  IF r.panicked THEN Panic(self, ElementPanicked, call)
            ELSE IF debug_assertions /\ ~is_finite(r.size[1])
                 THEN Panic(self, AssertX, call)
            ELSE IF debug_assertions /\ ~is_finite(r.size[2])
                 THEN Panic(self, AssertY, call)
            ELSE Ok(Lifecycle_PostLayout(r.element, r.size, r.layout),
                    Some(r.size), call))

\* an after_layout that, called too early or too late, fails and leaves Init
Lifecycle_after_layout_resets(self, r) ==
    IF self.tag = "PostLayout"
    THEN LET call == <<[method |-> "after_layout", size |-> self.size,
                        layout |-> self.layout]>>
             new == [self EXCEPT !.element = r.element, !.layout = r.layout]
         IN  IF r.panicked THEN Panic(self, ElementPanicked, call)
             ELSE Ok(new, None, call)
    ELSE Panic(Lifecycle_Init(self.element), InvalidState, <<>>)

\* an after_layout that hands the element the size with its sides swapped
Lifecycle_after_layout_swapped(self, r) ==
    IF self.tag = "PostLayout"
    THEN LET call == <<[method |-> "after_layout",
                        size |-> <<self.size[2], self.size[1]>>,
                        layout |-> self.layout]>>
             new == [self EXCEPT !.element = r.element, !.layout = r.layout]
         IN  IF r.panicked THEN Panic(self, ElementPanicked, call)
             ELSE Ok(new, None, call)
    ELSE Panic(self, InvalidState, <<>>)

\* an after_layout that is also accepted once painted
Lifecycle_after_layout_late(self, r) ==
    IF self.tag \in {"PostLayout", "PostPaint"}
    THEN LET size == IF self.tag = "PostLayout" THEN self.size
                     ELSE RectF_size(self.bounds)
             call == <<[method |-> "after_layout", size |-> size,
                        layout |-> self.layout]>>
             new == [self EXCEPT !.element = r.element, !.layout = r.layout]
         IN  IF r.panicked THEN Panic(self, ElementPanicked, call)
             ELSE Ok(new, None, call)
    ELSE Panic(self, InvalidState, <<>>)

\* an after_layout that skips the element instead of failing outside PostLayout
Lifecycle_after_layout_unchecked(self, r) ==
    IF self.tag = "PostLayout"
    THEN LET call == <<[method |-> "after_layout", size |-> self.size,
                        layout |-> self.layout]>>
             new == [self EXCEPT !.element = r.element, !.layout = r.layout]
         IN  IF r.panicked THEN Panic(self, ElementPanicked, call)
             ELSE Ok(new, None, call)
    ELSE Ok(self, None, <<>>)

Lifecycle_after_layout(self, r) ==
    IF self.tag = "Moved" THEN Undefined(self)
    ELSE IF self.tag = "PostLayout"
    THEN LET call == <<[method |-> "after_layout", size |-> self.size,
                        layout |-> self.layout]>>
             new == [self EXCEPT !.element = r.element, !.layout = r.layout]
         IN  IF r.panicked THEN Panic(self, ElementPanicked, call)
             ELSE Ok(new, None, call)
    ELSE Panic(self, InvalidState, <<>>)

\* a paint that, called once painted, starts the element over instead of failing
Lifecycle_paint_restarts(self, origin, r) ==
    IF self.tag = "PostPaint"
    THEN Ok(Lifecycle_Init(self.element), None, <<>>)
    ELSE replace_with_or_abort(
        IF self.tag = "PostLayout"
        THEN LET bounds == RectF_new(origin, self.size)
                 call == <<[method |-> "paint", bounds |-> bounds,
                            layout |-> self.layout]>>
             IN  IF r.panicked THEN Panic(self, ElementPanicked, call)
                 ELSE Ok(Lifecycle_PostPaint(r.element, bounds, r.layout, r.paint),
                         None, call)
        ELSE Panic(self, InvalidState, <<>>))

\* a paint that lets the element work on a copy of the layout state
Lifecycle_paint_copy(self, origin, r) ==
    replace_with_or_abort(
        IF self.tag = "PostLayout"
        THEN LET bounds == RectF_new(origin, self.size)
                 call == <<[method |-> "paint", bounds |-> bounds,
                            layout |-> self.layout]>>
             IN  IF r.panicked THEN Panic(self, ElementPanicked, call)
                 ELSE Ok(Lifecycle_PostPaint(r.element, bounds, self.layout,
                                             r.paint),
                         None, call)
        ELSE Panic(self, InvalidState, <<>>))

\* a paint that always paints at the window's origin
Lifecycle_paint_at_zero(self, origin, r) ==
    replace_with_or_abort(
        IF self.tag = "PostLayout"
        THEN LET bounds == RectF_new(<<0, 0>>, self.size)
                 call == <<[method |-> "paint", bounds |-> bounds,
                            layout |-> self.layout]>>
             IN  IF r.panicked THEN Panic(self, ElementPanicked, call)
                 ELSE Ok(Lifecycle_PostPaint(r.element, bounds, r.layout, r.paint),
                         None, call)
        ELSE Panic(self, InvalidState, <<>>))

\* a paint that also accepts PostPaint and paints again
Lifecycle_paint_again(self, origin, r) ==
    replace_with_or_abort(
        IF self.tag \in {"PostLayout", "PostPaint"}
        THEN LET size == IF self.tag = "PostLayout" THEN self.size
                         ELSE RectF_size(self.bounds)
                 bounds == RectF_new(origin, size)
                 call == <<[method |-> "paint", bounds |-> bounds,
                            layout |-> self.layout]>>
             IN  IF r.panicked THEN Panic(self, ElementPanicked, call)
                 ELSE Ok(Lifecycle_PostPaint(r.element, bounds, r.layout, r.paint),
                         None, call)
        ELSE Panic(self, InvalidState, <<>>))

\* a paint that calls the element and forgets to store PostPaint
Lifecycle_paint_stays(self, origin, r) ==
    IF self.tag = "PostLayout" /\ ~r.panicked
    THEN Ok([self EXCEPT !.element = r.element, !.layout = r.layout], None,
            <<[method |-> "paint", bounds |-> RectF_new(origin, self.size),
               layout |-> self.layout]>>)
    ELSE replace_with_or_abort(Panic(self, InvalidState, <<>>))

Lifecycle_paint(self, origin, r) ==
    IF self.tag = "Moved" THEN Undefined(self)
    ELSE replace_with_or_abort(
        IF self.tag = "PostLayout"
        THEN LET bounds == RectF_new(origin, self.size)
                 call == <<[method |-> "paint", bounds |-> bounds,
                            layout |-> self.layout]>>
             IN  IF r.panicked THEN Panic(self, ElementPanicked, call)
                 ELSE Ok(Lifecycle_PostPaint(r.element, bounds, r.layout, r.paint),
                         None, call)
        ELSE Panic(self, InvalidState, <<>>))

\* a dispatch_event that moves the bounds to where the event was claimed
Lifecycle_dispatch_event_moves(self, event, r) ==
    IF self.tag = "PostPaint"
    THEN LET call == <<[method |-> "dispatch_event", event |-> event,
                        bounds |-> self.bounds, layout |-> self.layout,
                        paint |-> self.paint]>>
             new == [self EXCEPT !.element = r.element, !.layout = r.layout,
                                 !.paint = r.paint,
                                 !.bounds = IF r.handled
                                            THEN RectF_new(<<0, 0>>,
                                                           RectF_size(self.bounds))
                                            ELSE self.bounds]
         IN  IF r.panicked THEN Panic(self, ElementPanicked, call)
             ELSE Ok(new, Some(r.handled), call)
    ELSE Panic(self, InvalidState, <<>>)

Lifecycle_dispatch_event(self, event, r) ==
    IF self.tag = "Moved" THEN Undefined(self)
    ELSE IF self.tag = "PostPaint"
    THEN LET call == <<[method |-> "dispatch_event", event |-> event,
                        bounds |-> self.bounds, layout |-> self.layout,
                        paint |-> self.paint]>>
             new == [self EXCEPT !.element = r.element, !.layout = r.layout,
                                 !.paint = r.paint]
         IN  IF r.panicked THEN Panic(self, ElementPanicked, call)
             ELSE Ok(new, Some(r.handled), call)
    ELSE Panic(self, InvalidState, <<>>)

\* a size that answers with an empty size before the first layout
Lifecycle_size_default(self) ==
    CASE self.tag = "Init" -> Ok(self, Some(<<0, 0>>), <<>>)
      [] self.tag = "PostLayout" -> Ok(self, Some(self.size), <<>>)
      [] self.tag = "PostPaint" -> Ok(self, Some(RectF_size(self.bounds)), <<>>)
      [] OTHER -> Undefined(self)

\* a size that reads the bounds' corner instead of their extent
Lifecycle_size_corner(self) ==
    CASE self.tag = "Init" -> Panic(self, InvalidState, <<>>)
      [] self.tag = "PostLayout" -> Ok(self, Some(self.size), <<>>)
      [] self.tag = "PostPaint" -> Ok(self, Some(self.bounds.lower_right), <<>>)
      [] OTHER -> Undefined(self)

Lifecycle_size(self) ==
    CASE self.tag = "Init" -> Panic(self, InvalidState, <<>>)
      [] self.tag = "PostLayout" -> Ok(self, Some(self.size), <<>>)
      [] self.tag = "PostPaint" -> Ok(self, Some(RectF_size(self.bounds)), <<>>)
      [] OTHER -> Undefined(self)

\* a metadata that, like size, refuses to answer before the first layout
Lifecycle_metadata_gated(self) ==
    CASE self.tag = "Moved" -> Undefined(self)
      [] self.tag = "Init" -> Panic(self, InvalidState, <<>>)
      [] OTHER -> Ok(self, Some(ElementMetadata(self.element)),
                     <<[method |-> "metadata"]>>)

Lifecycle_metadata(self) ==
    IF self.tag = "Moved" THEN Undefined(self)
    ELSE Ok(self, Some(ElementMetadata(self.element)),
            <<[method |-> "metadata"]>>)

Lifecycle_debug(self, r) ==
    IF self.tag = "Moved" THEN Undefined(self)
    ELSE IF self.tag = "PostPaint"
    THEN LET call == <<[method |-> "debug", bounds |-> self.bounds,
                        layout |-> self.layout, paint |-> self.paint]>>
         IN  IF r.panicked THEN Panic(self, ElementPanicked, call)
             ELSE Ok(self, Some(r.value), call)
    ELSE Panic(self, InvalidState, <<>>)

\* ------------------------------------------------------------ ElementBox
\* Element::boxed / Element::named
boxed(element) == [name |-> None, element |-> Lifecycle_Init(element)]
named(element, name) == [name |-> Some(name), element |-> Lifecycle_Init(element)]

\* self.element.<op>(..): the handle afterwards holds the lifecycle afterwards
Forward(self, res) == [res EXCEPT !.self = [self EXCEPT !.element = res.self]]

ElementBox_layout(self, constraint, r) ==
    Forward(self, Lifecycle_layout(self.element, constraint, r))
ElementBox_after_layout(self, r) ==
    Forward(self, Lifecycle_after_layout(self.element, r))
ElementBox_paint(self, origin, r) ==
    Forward(self, Lifecycle_paint(self.element, origin, r))
\* a dispatch_event that reports every delivered event as handled
ElementBox_dispatch_event_true(self, event, r) ==
    LET res == Forward(self, Lifecycle_dispatch_event(self.element, event, r))
    IN  IF res.outcome = "ok" THEN [res EXCEPT !.ret = Some(TRUE)] ELSE res

ElementBox_dispatch_event(self, event, r) ==
    Forward(self, Lifecycle_dispatch_event(self.element, event, r))
ElementBox_size(self) == Forward(self, Lifecycle_size(self.element))
ElementBox_metadata(self) == Forward(self, Lifecycle_metadata(self.element))

\* the name inserted after the entries of map instead of before them
NamedMap_last(name, map) == Map_insert(map, "name", JString(name))

\* the map {"name": name} followed by the entries of map
NamedMap(name, map) ==
    Map_append(Map_insert(<<>>, "name", JString(name)), map)

\* a debug that wraps whatever the element returned once a name is attached
ElementBox_debug_always(self, r) ==
    LET res == Forward(self, Lifecycle_debug(self.element, r))
    IN  IF res.outcome # "ok" THEN res
        ELSE LET value == res.ret[1]
                 map == IF value.kind = "Object" THEN value.map ELSE <<>>
             IN  IF self.name # None
                 THEN [res EXCEPT
                         !.ret = Some(JObject(NamedMap(self.name[1], map)))]
                 ELSE res

ElementBox_debug(self, r) ==
    LET res == Forward(self, Lifecycle_debug(self.element, r))
    IN  IF res.outcome # "ok" THEN res
        ELSE LET value == res.ret[1]
             IN  IF self.name # None /\ value.kind = "Object"
                 THEN [res EXCEPT
                         !.ret = Some(JObject(NamedMap(self.name[1], value.map)))]
                 ELSE res

\* ----------------------------------------------------------------- history
Min(a, b) == IF a < b THEN a ELSE b

\* the calls so far are a prefix of: layout, after_layout, paint, then
\* dispatch_event and debug in any number and order (size and metadata are
\* queries and may come anywhere)
NextOrder(o, op) ==
    CASE op \in {"size", "metadata"} -> o
      [] o = "new" /\ op = "layout" -> "layout"
      [] o = "layout" /\ op = "after_layout" -> "after_layout"
      [] o = "after_layout" /\ op = "paint" -> "paint"
      [] o = "paint" /\ op \in {"dispatch_event", "debug"} -> "paint"
      [] OTHER -> "off"

NextFrame(f, op) ==
    CASE op = "layout" ->
            [afters |-> 0, paints |-> 0]
      [] op = "after_layout" -> [f EXCEPT !.afters = Min(f.afters + 1, MaxCount)]
      [] op = "paint" -> [f EXCEPT !.paints = Min(f.paints + 1, MaxCount)]
      [] OTHER -> f

\* the phase state the element's method produced (layout, paint) or left
\* behind the `&mut` it was handed (after_layout, paint, dispatch_event)
NextThreaded(t, op, res, r) ==
    IF res.outcome # "ok" \/ res.call = <<>> THEN t
    ELSE CASE op = "layout" -> [layout |-> Some(r.layout), paint |-> None]
           [] op = "after_layout" -> [t EXCEPT !.layout = Some(r.layout)]
           [] op \in {"paint", "dispatch_event"} ->
                 [layout |-> Some(r.layout), paint |-> Some(r.paint)]
           [] OTHER -> t

\* what every call leaves behind; elem is the Option of what the concrete
\* element's method did, when the call reached it
Record(op, res, r) ==
    /\ handle' = res.self
    /\ halted' = (res.outcome = "abort")
    /\ last' = [op |-> op, pre |-> handle.element.tag, outcome |-> res.outcome,
                msg |-> res.msg, ret |-> res.ret, call |-> res.call,
                elem |-> IF res.call = <<>> THEN None ELSE Some(r)]
    /\ order' = NextOrder(order, op)
    /\ frame' = IF res.outcome = "ok" THEN NextFrame(frame, op) ELSE frame
    /\ threaded' = NextThreaded(threaded, op, res, r)
    /\ UNCHANGED debug_assertions

\* ------------------------------------------------------------------ actions
Init ==
    /\ handle \in {boxed(e) : e \in Elems}
                    \cup {named(e, n) : e \in Elems, n \in Names}
    /\ debug_assertions \in BOOLEAN
    /\ halted = FALSE
    /\ last = [op |-> "new", pre |-> "Init", outcome |-> "ok", msg |-> "",
               ret |-> None, call |-> <<>>, elem |-> None]
    /\ order = "new"
    /\ frame = [afters |-> 0, paints |-> 0]
    /\ measured = None
    /\ placed = None
    /\ threaded = [layout |-> None, paint |-> None]

Layout ==
    /\ ~halted
    /\ \E constraint \in Constraints, r \in ElementLayoutResults :
         LET res == ElementBox_layout(handle, constraint, r)
         IN  /\ Record("layout", res, r)
             /\ measured' = IF res.outcome = "ok" THEN Some(r.size) ELSE measured
             /\ placed' = IF res.outcome = "ok" THEN None ELSE placed

AfterLayout ==
    /\ ~halted
    /\ \E r \in ElementAfterLayoutResults :
         /\ Record("after_layout", ElementBox_after_layout(handle, r), r)
         /\ UNCHANGED <<measured, placed>>

Paint ==
    /\ ~halted
    /\ \E origin \in Origins, r \in ElementPaintResults :
         LET res == ElementBox_paint(handle, origin, r)
         IN  /\ Record("paint", res, r)
             /\ placed' = IF res.outcome = "ok" THEN Some(origin) ELSE placed
             /\ UNCHANGED measured

DispatchEvent ==
    /\ ~halted
    /\ \E event \in Events, r \in ElementDispatchResults :
         /\ Record("dispatch_event", ElementBox_dispatch_event(handle, event, r), r)
         /\ UNCHANGED <<measured, placed>>

Size ==
    /\ ~halted
    /\ Record("size", ElementBox_size(handle), None)
    /\ UNCHANGED <<measured, placed>>

Metadata ==
    /\ ~halted
    /\ Record("metadata", ElementBox_metadata(handle),
              ElementBox_metadata(handle).ret)
    /\ UNCHANGED <<measured, placed>>

Debug ==
    /\ ~halted
    /\ \E r \in ElementDebugResults :
         /\ Record("debug", ElementBox_debug(handle, r), r)
         /\ UNCHANGED <<measured, placed>>

Next ==
    \/ Layout
    \/ AfterLayout
    \/ Paint
    \/ DispatchEvent
    \/ Size
    \/ Metadata
    \/ Debug

Spec == Init /\ [][Next]_vars

TypeOK ==
    /\ handle.element.tag \in {"Init", "PostLayout", "PostPaint", "Moved"}
    /\ halted \in BOOLEAN

\* ------------------------------------------------------------------- claims
tag == handle.element.tag
Succeeded(op) == last.op = op /\ last.outcome = "ok"
\* the call ended in the invalid-lifecycle-state failure, the element untouched
InvalidStateFailure ==
    /\ last.outcome \in {"panic", "abort"}
    /\ last.msg = InvalidState
    /\ last.call = <<>>

\* C1: while the calls so far are layout, after_layout, paint, then
\* dispatch_event and debug in any number and order, no call has ended in an
\* invalid-lifecycle-state failure, and the lifecycle is PostLayout after
\* layout and after after_layout, PostPaint after paint and after every
\* dispatch_event and debug (unless the element itself failed and the
\* process aborted).
C1_InOrderSucceeds ==
    order \in {"layout", "after_layout", "paint"} =>
        /\ last.msg # InvalidState
        /\ last.outcome # "undefined"
        /\ ~halted => tag = (IF order = "paint" THEN "PostPaint" ELSE "PostLayout")
        /\ last.call # <<>> => last.outcome = "ok" \/ last.msg \in {ElementPanicked, AssertX, AssertY}

C1_Witness ==
    /\ order = "paint"
    /\ Succeeded("dispatch_event")
    /\ frame.afters = 1

\* C2: after_layout and paint called in Init, and dispatch_event and debug
\* called in Init or PostLayout, end in the invalid-lifecycle-state failure
\* without reaching the element; none of them succeeds there.
C2_PrerequisiteEnforced ==
    /\ (last.op \in {"after_layout", "paint"} /\ last.pre = "Init")
          => InvalidStateFailure
    /\ (last.op \in {"dispatch_event", "debug"}
            /\ last.pre \in {"Init", "PostLayout"})
          => InvalidStateFailure
    /\ (last.op = "paint" /\ last.pre = "Init") => halted

C2_Witness ==
    /\ last.op = "after_layout"
    /\ last.pre = "Init"
    /\ last.outcome = "panic"
    /\ tag = "Init"

\* C3: layout never ends in the invalid-lifecycle-state failure, whatever
\* the state it is called in; when it returns, the lifecycle is PostLayout
\* holding exactly the element state, size and layout state the element's
\* layout just returned, and nothing else (no bounds, no paint state), and
\* the handle's layout returned that size; a dispatch_event or debug called
\* in PostLayout fails and leaves PostLayout.
C3_LayoutFromAnyState ==
    /\ last.op = "layout" =>
          /\ last.msg # InvalidState
          /\ last.pre \in {"Init", "PostLayout", "PostPaint"}
          /\ last.call # <<>>
    /\ Succeeded("layout") =>
          /\ handle.element = Lifecycle_PostLayout(last.elem[1].element,
                                    last.elem[1].size, last.elem[1].layout)
          /\ DOMAIN handle.element = {"tag", "element", "size", "layout"}
          /\ last.ret = Some(last.elem[1].size)
    /\ (last.op \in {"dispatch_event", "debug"} /\ last.pre = "PostLayout") =>
          /\ InvalidStateFailure
          /\ tag = "PostLayout"

C3_Witness ==
    /\ Succeeded("layout")
    /\ last.pre = "PostPaint"
    /\ tag = "PostLayout"

Inner == last.elem[1].value
DebugInjects ==
    /\ Succeeded("debug")
    /\ handle.name # None
    /\ Inner.kind = "Object"
NotName(entry) == entry[1] # "name"
ValueOf(m, k) == (CHOOSE i \in 1..Len(m) : m[i][1] = k)
NameEntry(v) == << <<"name", v>> >>

\* C5 as stated: on a named handle, for every map the element's debug
\* returns, also one with a key "name", debug returns "name" -> the attached
\* name followed by all of the map's entries.
C5_NameThenAllEntries ==
    DebugInjects =>
        last.ret = Some(JObject(NameEntry(JString(handle.name[1])) \o Inner.map))

\* C5, amended: on a named handle, for every map the element's debug
\* returns, debug returns a map whose first entry has the key "name",
\* followed by the map's other entries in their order with their values;
\* "name" maps to the attached name when the map has no key "name", and to
\* the map's own value for "name" when it has one.
C5_NameInjected ==
    DebugInjects =>
        LET m == Inner.map
            v == IF "name" \in Keys(m) THEN m[ValueOf(m, "name")][2]
                 ELSE JString(handle.name[1])
        IN  last.ret = Some(JObject(NameEntry(v) \o SelectSeq(m, NotName)))

C5_Witness ==
    /\ DebugInjects
    /\ Len(Inner.map) = 2
    /\ Inner.map[2] = <<"name", JString("inner")>>
    /\ last.ret[1].map[1] = <<"name", JString("inner")>>

\* C6: debug returns the value the element's debug returned, as it is, when
\* the handle has no name, and when that value is not a map.
C6_DebugUnchanged ==
    (Succeeded("debug") /\ (handle.name = None \/ Inner.kind # "Object")) =>
        last.ret = Some(Inner)

C6_Witness ==
    /\ Succeeded("debug")
    /\ handle.name = Some("foo")
    /\ Inner = JString("hi")
    /\ last.ret = Some(JString("hi"))

\* the three variants around one concrete element
VariantsOf(element) ==
    { Lifecycle_Init(element),
      Lifecycle_PostLayout(element, <<1, 1>>, 0),
      Lifecycle_PostPaint(element, RectF_new(<<0, 0>>, <<1, 1>>), 0, "cold") }

\* C7: metadata() succeeds in Init, PostLayout and PostPaint alike and
\* returns the concrete element's metadata: the value is decided by the
\* element held, the same whichever of the three variants holds it.
C7_MetadataAnyState ==
    /\ last.op = "metadata" =>
          /\ last.outcome = "ok"
          /\ last.pre = tag
          /\ last.ret = Some(ElementMetadata(handle.element.element))
    /\ ~halted =>
          \A v \in VariantsOf(handle.element.element) :
              /\ ElementBox_metadata([handle EXCEPT !.element = v]).outcome = "ok"
              /\ ElementBox_metadata([handle EXCEPT !.element = v]).ret
                    = ElementBox_metadata(handle).ret

C7_Witness ==
    /\ Succeeded("metadata")
    /\ last.pre = "Init"
    /\ last.ret = Some(Some("focusable"))

\* C8: in PostPaint the bounds are the origin given to the latest paint
\* with the size the latest layout returned; the element's paint received
\* exactly these bounds, and so does every dispatch_event and debug.
C8_BoundsAreOriginAndSize ==
    /\ tag = "PostPaint" =>
          /\ placed # None /\ measured # None
          /\ handle.element.bounds = RectF_new(placed[1], measured[1])
          /\ handle.element.bounds.origin = placed[1]
          /\ RectF_size(handle.element.bounds) = measured[1]
    /\ (last.outcome = "ok" /\ last.op \in {"paint", "dispatch_event", "debug"}) =>
          /\ tag = "PostPaint"
          /\ last.call[1].bounds = handle.element.bounds
    /\ (last.op \in {"dispatch_event", "debug"} /\ last.call # <<>>) =>
          last.call[1].bounds = RectF_new(placed[1], measured[1])

C8_Witness ==
    /\ Succeeded("debug")
    /\ placed = Some(<<1, MaxCoord>>)
    /\ measured = Some(<<MaxCoord, 1>>)
    /\ last.call[1].bounds =
          [origin |-> <<1, MaxCoord>>,
           lower_right |-> <<1 + MaxCoord, MaxCoord + 1>>]

\* C9: the slot never shows a moved-out lifecycle to a call: it is moved
\* out only in an aborted process, no call ever started on it, and a layout
\* or paint that did not produce its new variant (the element failed, an
\* assertion failed, paint was called in a wrong state) aborted the process;
\* in a running process the slot holds one of the three variants.
C9_NoTornState ==
    /\ tag = "Moved" <=> halted
    /\ last.pre # "Moved" /\ last.outcome # "undefined"
    /\ (last.op \in {"layout", "paint"} /\ last.outcome # "ok") =>
          last.outcome = "abort" /\ halted /\ tag = "Moved"
    /\ ~halted => handle.element \in
          [tag : {"Init"}, element : Elems]
            \cup [tag : {"PostLayout"}, element : Elems, size : Sizes,
                  layout : LayoutStates]
            \cup [tag : {"PostPaint"}, element : Elems,
                  bounds : {RectF_new(o, z) : o \in Origins, z \in Sizes},
                  layout : LayoutStates, paint : PaintStates]

C9_Witness ==
    /\ halted
    /\ tag = "Moved"
    /\ last.op = "paint"
    /\ last.pre = "PostLayout"
    /\ last.msg = ElementPanicked

\* C10 as stated: between one layout and the next, a paint succeeds only
\* after exactly one after_layout, after_layout succeeds at most once, and a
\* layout does not succeed again before a paint.
C10_OncePerFrame ==
    /\ Succeeded("paint") => frame.afters = 1
    /\ frame.afters <= 1
    /\ ~(Succeeded("layout") /\ last.pre = "PostLayout")

\* C10, amended: the lifecycle enforces the prerequisites only: after_layout
\* and paint succeed only in PostLayout, dispatch_event and debug only in
\* PostPaint, so at most one paint succeeds between one layout and the next
\* and no after_layout succeeds after it; after_layout may be skipped or
\* repeated before the paint, and layout may be repeated without a paint.
C10_PrerequisitesOnly ==
    /\ frame.paints <= 1
    /\ ~halted => (frame.paints = 1 <=> tag = "PostPaint")
    /\ Succeeded("after_layout") => last.pre = "PostLayout" /\ frame.paints = 0
    /\ Succeeded("paint") => last.pre = "PostLayout" /\ frame.paints = 1
    /\ (last.outcome = "ok" /\ last.op \in {"dispatch_event", "debug"}) =>
          last.pre = "PostPaint" /\ frame.paints = 1
    /\ Succeeded("layout") => frame = [afters |-> 0, paints |-> 0]

C10_Witness ==
    /\ Succeeded("paint")
    /\ frame.afters = 0
    /\ tag = "PostPaint"

\* C11: a handle built by boxed() or by named() starts in Init; size()
\* ends in the invalid-lifecycle-state failure exactly when it is called in
\* Init, and returns in PostLayout and in PostPaint.
C11_SizeFailsOnlyInInit ==
    /\ last.op = "new" =>
          /\ tag = "Init"
          /\ handle \in {boxed(e) : e \in Elems}
                          \cup {named(e, n) : e \in Elems, n \in Names}
    /\ last.op = "size" =>
          /\ last.pre = "Init" => InvalidStateFailure /\ last.outcome = "panic"
          /\ last.pre \in {"PostLayout", "PostPaint"} =>
                last.outcome = "ok" /\ last.ret # None
    /\ ~halted => (ElementBox_size(handle).outcome = "ok" <=> tag # "Init")

C11_Witness ==
    /\ last.op = "size"
    /\ last.pre = "Init"
    /\ last.outcome = "panic"
    /\ handle.name = Some("foo")

\* the calls that can end in the invalid-lifecycle-state failure, and the
\* message each of them raises on lifecycle v
Guarded == {"after_layout", "paint", "dispatch_event", "size", "debug"}
DiagnosticOf(op, v) ==
    CASE op = "after_layout" ->
            Lifecycle_after_layout(v, CHOOSE r \in ElementAfterLayoutResults : TRUE)
      [] op = "paint" ->
            Lifecycle_paint(v, <<0, 0>>, CHOOSE r \in ElementPaintResults : TRUE)
      [] op = "dispatch_event" ->
            Lifecycle_dispatch_event(v, "click",
                                     CHOOSE r \in ElementDispatchResults : TRUE)
      [] op = "size" -> Lifecycle_size(v)
      [] op = "debug" ->
            Lifecycle_debug(v, CHOOSE r \in ElementDebugResults : TRUE)

\* C12 as stated: the message of an invalid-lifecycle-state failure tells
\* the call and the state it was raised in: the same call in another wrong
\* state, and another call, raise a different message.
C12_DiagnosticIdentifies ==
    (last.op \in Guarded /\ last.msg = InvalidState) =>
        \A op \in Guarded, v \in VariantsOf("plain") :
            (/\ <<op, v.tag>> # <<last.op, last.pre>>
             /\ DiagnosticOf(op, v).outcome # "ok")
              => DiagnosticOf(op, v).msg # last.msg

\* C13: after_layout and paint called in PostPaint end in the
\* invalid-lifecycle-state failure (paint's aborts the process); they
\* succeed only in PostLayout, so at most one paint succeeds between one
\* layout and the next.
C13_OnePaintPerLayout ==
    /\ (last.op \in {"after_layout", "paint"} /\ last.pre = "PostPaint")
          => InvalidStateFailure
    /\ (last.op = "paint" /\ last.pre = "PostPaint") => halted
    /\ (last.outcome = "ok" /\ last.op \in {"after_layout", "paint"})
          => last.pre = "PostLayout"
    /\ frame.paints <= 1

C13_Witness ==
    /\ last.op = "paint"
    /\ last.pre = "PostPaint"
    /\ last.outcome = "abort"
    /\ frame.paints = 1

\* C14: the layout state handed to the element's after_layout, paint,
\* dispatch_event and debug is the one its most recent layout produced, as
\* the calls since then left it; the paint state handed to dispatch_event
\* and debug is the one the most recent paint produced, as the dispatches
\* since then left it, and that paint came after the most recent layout.
C14_NeverStale ==
    [][ (/\ last'.call # <<>>
         /\ last'.op \in {"after_layout", "paint", "dispatch_event", "debug"})
        => /\ Some(last'.call[1].layout) = threaded.layout
           /\ last'.op \in {"dispatch_event", "debug"} =>
                 /\ Some(last'.call[1].paint) = threaded.paint
                 /\ frame.paints = 1 ]_vars

C14_Witness ==
    /\ Succeeded("debug")
    /\ last.call[1].layout = MaxLayout
    /\ last.call[1].paint = "hot"
    /\ threaded = [layout |-> Some(MaxLayout), paint |-> Some("hot")]
    /\ measured = Some(<<1, 1>>)

\* C15 as stated: a dispatch_event that returns in PostPaint leaves the
\* lifecycle in PostPaint with the bounds, the layout state and the paint
\* state it had before the call.
C15_DispatchChangesNothing ==
    Succeeded("dispatch_event") =>
        /\ tag = "PostPaint"
        /\ handle.element.bounds = last.call[1].bounds
        /\ handle.element.layout = last.call[1].layout
        /\ handle.element.paint = last.call[1].paint

\* C15, amended: a dispatch_event that returns in PostPaint leaves the
\* lifecycle in PostPaint with the bounds it had before the call; the
\* element's own state, the layout state and the paint state are what the
\* element's dispatch_event left behind the `&mut` it was handed, and may
\* differ from before.
C15_DispatchKeepsBounds ==
    Succeeded("dispatch_event") =>
        /\ last.pre = "PostPaint"
        /\ handle.element =
              Lifecycle_PostPaint(last.elem[1].element, last.call[1].bounds,
                                  last.elem[1].layout, last.elem[1].paint)
        /\ handle.element.bounds = RectF_new(placed[1], measured[1])

C15_Witness ==
    /\ Succeeded("dispatch_event")
    /\ last.ret = Some(TRUE)
    /\ handle.element.layout # last.call[1].layout
    /\ handle.element.paint # last.call[1].paint
    /\ handle.element.bounds = last.call[1].bounds
    /\ placed = Some(<<1, MaxCoord>>)

\* C16 as stated: an after_layout that returns in PostLayout leaves the
\* lifecycle in PostLayout with the size and the layout state it had
\* before the call, and the element's after_layout received the size the
\* latest layout stored.
C16_AfterLayoutChangesNothing ==
    Succeeded("after_layout") =>
        /\ tag = "PostLayout"
        /\ handle.element.size = last.call[1].size
        /\ Some(last.call[1].size) = measured
        /\ handle.element.layout = last.call[1].layout

\* C16, amended: an after_layout that returns in PostLayout leaves the
\* lifecycle in PostLayout with the size it had before the call, it can be
\* repeated any number of times, and the element's after_layout received
\* the size the latest layout stored; the element's own state and the
\* layout state are what the element's after_layout left behind the `&mut`
\* it was handed, and may differ from before.
C16_AfterLayoutKeepsSize ==
    Succeeded("after_layout") =>
        /\ last.pre = "PostLayout"
        /\ Some(last.call[1].size) = measured
        /\ handle.element =
              Lifecycle_PostLayout(last.elem[1].element, last.call[1].size,
                                   last.elem[1].layout)
        /\ \A r \in ElementAfterLayoutResults :
              ElementBox_after_layout(handle, r).msg # InvalidState

C16_Witness ==
    /\ Succeeded("after_layout")
    /\ frame.afters = MaxCount
    /\ handle.element.layout # last.call[1].layout
    /\ handle.element.size = <<MaxCoord, 1>>

\* C17: a dispatch_event called in PostPaint calls the element's
\* dispatch_event once, and what it returns is the boolean the element
\* returned.
C17_HandledPassedThrough ==
    (last.op = "dispatch_event" /\ last.pre = "PostPaint") =>
        /\ Len(last.call) = 1
        /\ last.call[1].method = "dispatch_event"
        /\ last.outcome = "ok" <=> ~last.elem[1].panicked
        /\ last.outcome = "ok" => last.ret = Some(last.elem[1].handled)

C17_Witness ==
    /\ Succeeded("dispatch_event")
    /\ last.elem[1].handled = FALSE
    /\ last.ret = Some(FALSE)
    /\ order = "paint"

\* the size the lifecycle stores
StoredSize ==
    IF tag = "PostLayout" THEN handle.element.size
    ELSE RectF_size(handle.element.bounds)
Finite(size) == is_finite(size[1]) /\ is_finite(size[2])

\* C18: in a debug build a layout whose element returns a size that is not
\* finite in x or in y aborts on the assertion, and no PostLayout or
\* PostPaint stores such a size; in a release build the same layout
\* returns and the size is stored as the element returned it.
C18_FiniteSizeAsserted ==
    /\ (debug_assertions /\ tag \in {"PostLayout", "PostPaint"})
          => Finite(StoredSize)
    /\ (last.op = "layout" /\ ~last.elem[1].panicked
            /\ ~Finite(last.elem[1].size)) =>
          IF debug_assertions
          THEN /\ last.outcome = "abort" /\ halted
               /\ last.msg = (IF is_finite(last.elem[1].size[1])
                              THEN AssertY ELSE AssertX)
          ELSE /\ last.outcome = "ok"
               /\ tag = "PostLayout"
               /\ handle.element.size = last.elem[1].size
               /\ last.ret = Some(last.elem[1].size)

C18_Witness ==
    /\ debug_assertions
    /\ last.op = "layout"
    /\ last.elem[1].size = <<1, NonFinite>>
    /\ last.msg = AssertY
    /\ halted

\* C19: a call that ends in the invalid-lifecycle-state failure did not
\* reach the concrete element, and when the call is after_layout,
\* dispatch_event, debug or size the handle is exactly as it was before the
\* call (variant, element, size or bounds, layout state, paint state) and
\* the process goes on.
C19_InvalidCallChangesNothing ==
    [][ last'.msg = InvalidState =>
          /\ last'.call = <<>>
          /\ last'.elem = None
          /\ last'.op \in {"after_layout", "dispatch_event", "debug", "size"} =>
                /\ handle' = handle
                /\ ~halted'
                /\ threaded' = threaded ]_vars

C19_Witness ==
    /\ last.op = "debug"
    /\ last.pre = "PostLayout"
    /\ last.msg = InvalidState
    /\ tag = "PostLayout"
    /\ frame.afters = 1

\* C20: no call takes the lifecycle back to Init: the variant changes only
\* to PostLayout by a layout that returned, from PostLayout to PostPaint by
\* a paint that returned, or is lost in an abort; so once a layout has
\* returned, size() returns in every state of the running process.
C20_InitNeverReentered ==
    /\ [][ handle'.element.tag # handle.element.tag =>
             \/ /\ handle'.element.tag = "PostLayout"
                /\ last'.op = "layout" /\ last'.outcome = "ok"
             \/ /\ handle.element.tag = "PostLayout"
                /\ handle'.element.tag = "PostPaint"
                /\ last'.op = "paint" /\ last'.outcome = "ok"
             \/ /\ handle'.element.tag = "Moved"
                /\ last'.outcome = "abort" /\ halted' ]_vars
    /\ []((measured # None /\ ~halted) =>
             /\ tag \in {"PostLayout", "PostPaint"}
             /\ ElementBox_size(handle).outcome = "ok")

C20_Witness ==
    /\ Succeeded("size")
    /\ last.pre = "PostLayout"
    /\ order = "off"
    /\ frame = [afters |-> 0, paints |-> 0]
    /\ last.ret = Some(<<MaxCoord, 1>>)

====
